---- MODULE Spec2Model ----
(***************************************************************************)
(* Model of the duplicate-code detection library wrapper (src/core.py):    *)
(* the report model (FileSimilarity, SimilarityReport, DetectionResult),   *)
(* the aggregator DuplicateCodeDetector._process_result, the detector's    *)
(* detection calls and the convenience functions.                          *)
(*                                                                         *)
(* Percentages are floats in the code.  Here a percentage is an integer    *)
(* number of 1/Scale percent, so that x.5-style values exist and int()     *)
(* truncation is observable.  A Python dict is an insertion-ordered        *)
(* mapping: it is modelled as a sequence of [k, v] items with distinct     *)
(* keys.                                                                   *)
(***************************************************************************)
EXTENDS Integers, Sequences, FiniteSets, TLC

VARIABLES
    detector,   \* the DuplicateCodeDetector instance (its settings)
    corpus,     \* the file set on disk: similarity of every unordered pair
    lastCall,   \* the last detection call made: operation and arguments
    runCount,   \* identical detection calls in succession (capped at 2)
    prev,       \* the DetectionResult of the call before the last one
    result,     \* the DetectionResult returned by the last call
    obs,        \* the last derived view queried on result
    rawIn,      \* a raw_data mapping being assembled by a caller
    again       \* the result of feeding result.raw_data back in

vars == <<detector, corpus, lastCall, runCount, prev, result, obs, rawIn, again>>

(***************************************************************************)
(* Bounds of the model.                                                    *)
(***************************************************************************)
Scale == 2          \* a percentage unit is 1/Scale percent
MaxPct == 2         \* similarity percentages range over 0..MaxPct units
MaxLoc == 1         \* "#LoC" values written by a caller range over 1..MaxLoc
MaxRawSize == 4     \* files plus entries of a caller-assembled raw_data

(***************************************************************************)
(* Program constants.                                                      *)
(***************************************************************************)
DefaultFailThreshold == 100
DefaultIgnoreThreshold == 15
None == -1          \* Python's None in an int | None field
SUCCESS == 0
THRESHOLD_EXCEEDED == 2

LoCKey == "#LoC"
Paths == {"a.py", "b.py", "c.py"}
PathOrder == <<"a.py", "b.py", "c.py">>   \* the loader's enumeration order
DefaultExtensions == <<"py", "js", "ts", "java", "cpp", "c", "h">>

Pcts == 0..MaxPct
Pairs == {pr \in SUBSET Paths : Cardinality(pr) = 2}

\* A float percentage given as a whole number p of percent.
Percent(p) == p * Scale
\* int(x) for a float x >= 0: truncation to a whole number of percent.
IntOf(x) == (x \div Scale) * Scale
\* float(n) for an int n.
FloatOf(n) == n * Scale

\* Whole-percent thresholds a detector can be constructed with.
IntThresholds == {Percent(n) : n \in 0..(MaxPct \div Scale)}
\* Float thresholds a caller can pass to a convenience function or a query.
FloatThresholds == 0..MaxPct

(***************************************************************************)
(* Values of a raw_data inner mapping: a plain number (an int, as for      *)
(* "#LoC", or a float percentage), or a nested mapping                     *)
(* {"Similarity": float, "#LoC": int}.                                     *)
(***************************************************************************)
IntVal(n) == [kind |-> "int", n |-> n, loc |-> None]
FloatVal(x) == [kind |-> "float", n |-> x, loc |-> None]
DictVal(x, l) == [kind |-> "dict", n |-> x, loc |-> l]

Item(k, v) == [k |-> k, v |-> v]
Keys(d) == [i \in 1..Len(d) |-> d[i].k]
KeySet(d) == {d[i].k : i \in 1..Len(d)}
HasKey(d, k) == k \in KeySet(d)
Lookup(d, k) == d[CHOOSE i \in 1..Len(d) : d[i].k = k].v

(***************************************************************************)
(* Report model.                                                           *)
(***************************************************************************)
FileSimilarity(source_file, target_file, similarity_percentage, source_loc, target_loc) ==
    [source_file |-> source_file,
     target_file |-> target_file,
     similarity_percentage |-> similarity_percentage,
     source_loc |-> source_loc,
     target_loc |-> target_loc]

SimilarityReport(file_path) ==
    [file_path |-> file_path, similarities |-> <<>>, loc_count |-> None]

DetectionResult(return_code, reports, raw_data) ==
    [return_code |-> return_code, reports |-> reports, raw_data |-> raw_data]

\* SimilarityReport.add_similarity, with the similarity inserted in front.
add_similarity_front(report, similarity) ==
    [report EXCEPT !.similarities = <<similarity>> \o @]

\* SimilarityReport.add_similarity
add_similarity(report, similarity) ==
    [report EXCEPT !.similarities = Append(@, similarity)]

\* SimilarityReport.get_high_similarities, keeping the entries at or below.
get_high_similarities_le(report, threshold) ==
    SelectSeq(report.similarities,
              LAMBDA s : s.similarity_percentage <= threshold)

\* SimilarityReport.get_high_similarities, excluding the boundary.
get_high_similarities_gt(report, threshold) ==
    SelectSeq(report.similarities,
              LAMBDA s : s.similarity_percentage > threshold)

\* SimilarityReport.get_high_similarities
get_high_similarities(report, threshold) ==
    SelectSeq(report.similarities,
              LAMBDA s : s.similarity_percentage >= threshold)

\* DetectionResult.is_success, judged by the absence of reports.
is_success_no_reports(self) == Len(self.reports) = 0

\* DetectionResult.is_success
is_success(self) == self.return_code = SUCCESS

\* DetectionResult.has_duplications, judged by the return code.
has_duplications_by_code(self) == ~is_success(self)

\* DetectionResult.has_duplications
has_duplications(self) == Len(self.reports) > 0

\* DetectionResult.get_critical_duplications: the two nested loops.
RECURSIVE CriticalFrom(_, _, _, _)
CriticalFrom(reports, threshold, i, critical) ==
    IF i > Len(reports) THEN critical
    ELSE CriticalFrom(reports, threshold, i + 1,
                      critical \o get_high_similarities(reports[i], threshold))

get_critical_duplications(self, threshold) ==
    CriticalFrom(self.reports, threshold, 1, <<>>)

(***************************************************************************)
(* DuplicateCodeDetector._process_result.                                  *)
(***************************************************************************)
\* Line 235-239: the condition under which "#LoC" is extracted.  Every
\* value of raw_data of the documented shape is a dict, so the isinstance
\* test is true.
ExtractsLoc(self, similarities) ==
    self.show_loc /\ HasKey(similarities, LoCKey)

\* Line 241: the mapping without its "#LoC" key (a new dict).
WithoutLoc(similarities) ==
    SelectSeq(similarities, LAMBDA it : it.k # LoCKey)

\* Line 245-261: one FileSimilarity from one item of the mapping.  A nested
\* mapping of the documented shape holds both "Similarity" and "#LoC", so
\* the defaults of .get are not taken.
MakeSimilarity(file_path, target_file, similarity_data, loc_count) ==
    IF similarity_data.kind = "dict"
    THEN FileSimilarity(file_path, target_file, similarity_data.n,
                        loc_count, similarity_data.loc)
    ELSE FileSimilarity(file_path, target_file,
                        IF similarity_data.kind = "int"
                        THEN FloatOf(similarity_data.n) ELSE similarity_data.n,
                        loc_count, None)

\* Line 244-263: the loop over the items of the mapping.
RECURSIVE AddSimilarities(_, _, _)
AddSimilarities(report, similarities, i) ==
    IF i > Len(similarities) THEN report
    ELSE AddSimilarities(
             add_similarity(report,
                 MakeSimilarity(report.file_path, similarities[i].k,
                                similarities[i].v, report.loc_count)),
             similarities, i + 1)

\* Line 232-263: the report of one file of raw_data.
FileReport(self, file_path, similarities) ==
    LET extract == ExtractsLoc(self, similarities)
        report == [SimilarityReport(file_path) EXCEPT
                     !.loc_count = IF extract
                                   THEN Lookup(similarities, LoCKey).n
                                   ELSE None]
    IN AddSimilarities(report,
                       IF extract THEN WithoutLoc(similarities) ELSE similarities,
                       1)

\* Line 265, with every report kept.
KeepsReportAlways(report) == TRUE

\* Line 265: a report is kept when it has similarities.
KeepsReport(report) == report.similarities # <<>>

\* Line 231-266: the loop over the files of raw_data.
RECURSIVE BuildReports(_, _, _, _)
BuildReports(self, raw_data, i, reports) ==
    IF i > Len(raw_data) THEN reports
    ELSE LET report == FileReport(self, raw_data[i].k, raw_data[i].v)
         IN BuildReports(self, raw_data, i + 1,
                         IF KeepsReport(report) THEN Append(reports, report)
                         ELSE reports)

\* _process_result with "#LoC" popped out of the caller's mapping in place.
process_result_pop_loc(self, return_code, raw_data) ==
    DetectionResult(
        return_code,
        BuildReports(self, raw_data, 1, <<>>),
        [i \in 1..Len(raw_data) |->
            Item(raw_data[i].k,
                 IF ExtractsLoc(self, raw_data[i].v)
                 THEN WithoutLoc(raw_data[i].v) ELSE raw_data[i].v)])

_process_result(self, return_code, raw_data) ==
    DetectionResult(return_code, BuildReports(self, raw_data, 1, <<>>), raw_data)

(***************************************************************************)
(* The detection engine run() and the line counter are not part of the     *)
(* wrapper: they are modelled from the specification (sections 4.2, 4.5    *)
(* and 6).  run() compares every unordered pair of the resolved files,     *)
(* fails when any comparison reaches fail_threshold (checked on the        *)
(* unfiltered comparisons), and emits, per file and in enumeration order,  *)
(* the comparisons at or above ignore_threshold.                           *)
(***************************************************************************)
FileLoc(path) == CHOOSE i \in 1..Len(PathOrder) : PathOrder[i] = path

\* The corpus loader: the files a list of directories resolves to.
Resolve(directories) == PathOrder

Similarity(sims, p, q) == sims[{p, q}]

ComparedPairs(files) ==
    {pr \in Pairs : \A p \in pr : \E i \in 1..Len(files) : files[i] = p}

RunMapping(files, source, ignore_threshold, show_loc, sims) ==
    LET targets == SelectSeq(files,
                       LAMBDA q : q # source
                                  /\ Similarity(sims, source, q) >= ignore_threshold)
        entries == [i \in 1..Len(targets) |->
                       Item(targets[i],
                            IF show_loc
                            THEN DictVal(Similarity(sims, source, targets[i]),
                                         FileLoc(targets[i]))
                            ELSE FloatVal(Similarity(sims, source, targets[i])))]
    IN IF show_loc
       THEN <<Item(LoCKey, IntVal(FileLoc(source)))>> \o entries
       ELSE entries

run(fail_threshold, files, ignore_threshold, show_loc, sims) ==
    [return_code |->
        IF \E pr \in ComparedPairs(files) : sims[pr] >= fail_threshold
        THEN THRESHOLD_EXCEEDED ELSE SUCCESS,
     raw_data |->
        [i \in 1..Len(files) |->
            Item(files[i],
                 RunMapping(files, files[i], ignore_threshold, show_loc, sims))]]

(***************************************************************************)
(* DuplicateCodeDetector.  A method is modelled as the pair of the         *)
(* instance after the call (self) and the value returned (ret).            *)
(***************************************************************************)
DuplicateCodeDetector(fail_threshold, ignore_threshold, file_extensions, only_code, show_loc) ==
    [fail_threshold |-> fail_threshold,
     ignore_threshold |-> ignore_threshold,
     file_extensions |-> IF file_extensions = <<>> THEN DefaultExtensions
                         ELSE file_extensions,
     only_code |-> only_code,
     show_loc |-> show_loc]

Detect(self, files, sims) ==
    LET r == run(self.fail_threshold, files, self.ignore_threshold,
                 self.show_loc, sims)
    IN _process_result(self, r.return_code, r.raw_data)

\* detect_in_files leaving the detector's ignore threshold raised to the
\* fail threshold.
detect_in_files_raising(self, files, sims) ==
    [self |-> [self EXCEPT !.ignore_threshold = self.fail_threshold],
     ret |-> Detect(self, files, sims)]

detect_in_files(self, files, sims) ==
    [self |-> self, ret |-> Detect(self, files, sims)]

detect_in_directories(self, directories, sims) ==
    [self |-> self, ret |-> Detect(self, Resolve(directories), sims)]

analyze_project(self, project_path, sims) ==
    detect_in_directories(self, <<project_path>>, sims)

\* The detector a convenience function builds: ignore_threshold=int(threshold),
\* every other setting at its default (no keyword arguments).
ConvenienceDetector(threshold) ==
    DuplicateCodeDetector(Percent(DefaultFailThreshold), IntOf(threshold),
                          <<>>, FALSE, TRUE)

detect_duplicates_in_directories(directories, threshold, sims) ==
    detect_in_directories(ConvenienceDetector(threshold), directories, sims).ret

detect_duplicates_in_files(files, threshold, sims) ==
    detect_in_files(ConvenienceDetector(threshold), files, sims).ret

analyze_project_duplicates(project_path, threshold, sims) ==
    analyze_project(ConvenienceDetector(threshold), project_path, sims).ret

(***************************************************************************)
(* Serialization: FileSimilarity.to_dict, SimilarityReport.to_dict and     *)
(* DetectionResult.to_dict.                                                *)
(***************************************************************************)
FileSimilarity_to_dict(self) ==
    [source_file |-> self.source_file,
     target_file |-> self.target_file,
     similarity_percentage |-> self.similarity_percentage,
     source_loc |-> self.source_loc,
     target_loc |-> self.target_loc]

SimilarityReport_to_dict(self) ==
    [file_path |-> self.file_path,
     loc_count |-> self.loc_count,
     similarities |-> [i \in 1..Len(self.similarities) |->
                          FileSimilarity_to_dict(self.similarities[i])]]

to_dict(self) ==
    [return_code |-> self.return_code,
     success |-> is_success(self),
     has_duplications |-> has_duplications(self),
     reports |-> [i \in 1..Len(self.reports) |->
                     SimilarityReport_to_dict(self.reports[i])],
     raw_data |-> self.raw_data]

(***************************************************************************)
(* State of the model.                                                     *)
(***************************************************************************)
NoResult == [return_code |-> None, reports |-> <<>>, raw_data |-> <<>>]
NoAgain == [via |-> "none", ret |-> NoResult]
NoCall == [op |-> "none", files |-> <<>>, threshold |-> None]
NoObs == [op |-> "none", threshold |-> None, out |-> None]

\* File lists a caller passes to detect_in_files.
FileLists == {<<"a.py", "b.py">>, <<"c.py", "a.py", "b.py">>}
Directories == <<"src">>
ProjectPath == "."

Corpora == [Pairs -> Pcts]

Detectors ==
    {DuplicateCodeDetector(f, g, <<>>, FALSE, s) :
        f \in IntThresholds, g \in IntThresholds, s \in BOOLEAN}

Init ==
    /\ detector \in Detectors
    /\ corpus \in Corpora
    /\ lastCall = NoCall
    /\ runCount = 0
    /\ prev = NoResult
    /\ result = NoResult
    /\ obs = NoObs
    /\ rawIn = <<>>
    /\ again = NoAgain

\* The files on disk change: one pair of files gets another similarity.
ChangeFiles ==
    /\ \E pr \in Pairs :
           \E x \in Pcts \ {corpus[pr]} :
               corpus' = [corpus EXCEPT ![pr] = x]
    /\ lastCall' = NoCall
    /\ runCount' = 0
    /\ prev' = NoResult
    /\ result' = NoResult
    /\ obs' = NoObs
    /\ UNCHANGED <<detector, rawIn, again>>

\* The bookkeeping of a detection call that returned ret.
Returned(call, ret) ==
    /\ lastCall' = call
    /\ runCount' = IF lastCall = call /\ runCount >= 1 THEN 2 ELSE 1
    /\ prev' = IF lastCall = call THEN result ELSE NoResult
    /\ result' = ret
    /\ obs' = NoObs
    /\ UNCHANGED <<corpus, rawIn, again>>

CallDetectInFiles ==
    \E files \in FileLists :
        LET out == detect_in_files(detector, files, corpus)
        IN /\ detector' = out.self
           /\ Returned([op |-> "detect_in_files", files |-> files,
                        threshold |-> None], out.ret)

CallDetectInDirectories ==
    LET out == detect_in_directories(detector, Directories, corpus)
    IN /\ detector' = out.self
       /\ Returned([op |-> "detect_in_directories",
                    files |-> Resolve(Directories), threshold |-> None], out.ret)

CallAnalyzeProject ==
    LET out == analyze_project(detector, ProjectPath, corpus)
    IN /\ detector' = out.self
       /\ Returned([op |-> "analyze_project",
                    files |-> Resolve(<<ProjectPath>>), threshold |-> None], out.ret)

CallDetectDuplicatesInFiles ==
    \E files \in FileLists, t \in FloatThresholds :
        /\ UNCHANGED detector
        /\ Returned([op |-> "detect_duplicates_in_files", files |-> files,
                     threshold |-> t],
                    detect_duplicates_in_files(files, t, corpus))

CallDetectDuplicatesInDirectories ==
    \E t \in FloatThresholds :
        /\ UNCHANGED detector
        /\ Returned([op |-> "detect_duplicates_in_directories",
                     files |-> Resolve(Directories), threshold |-> t],
                    detect_duplicates_in_directories(Directories, t, corpus))

CallAnalyzeProjectDuplicates ==
    \E t \in FloatThresholds :
        /\ UNCHANGED detector
        /\ Returned([op |-> "analyze_project_duplicates",
                     files |-> Resolve(<<ProjectPath>>), threshold |-> t],
                    analyze_project_duplicates(ProjectPath, t, corpus))

(***************************************************************************)
(* The DetectionResult after a call of one of its methods.  No method      *)
(* assigns an attribute: get_high_similarities builds a new list with a    *)
(* comprehension, get_critical_duplications appends to a local list, and   *)
(* to_dict and to_json build new dicts and a string.                       *)
(***************************************************************************)
\* SimilarityReport.get_high_similarities filtering self.similarities in place.
get_high_similarities_in_place(report, threshold) ==
    [report EXCEPT !.similarities = get_high_similarities(report, threshold)]

\* The SimilarityReport after get_high_similarities(threshold).
get_high_similarities_after(report, threshold) == report

\* The DetectionResult after get_critical_duplications(threshold): each
\* report after its get_high_similarities call.
get_critical_duplications_after(self, threshold) ==
    [self EXCEPT !.reports =
        [i \in 1..Len(self.reports) |->
            get_high_similarities_after(self.reports[i], threshold)]]

\* The DetectionResult after is_success(), has_duplications(), to_dict() or
\* to_json().
ReadOnlyAfter(self) == self

\* The derived views of the result: the value returned is observed and the
\* result becomes the instance after the call.
Observe(op, t, out, self) ==
    /\ result # NoResult
    /\ obs' = [op |-> op, threshold |-> t, out |-> out]
    /\ result' = self
    /\ UNCHANGED <<detector, corpus, lastCall, runCount, prev, rawIn, again>>

QueryIsSuccess ==
    Observe("is_success", None, is_success(result), ReadOnlyAfter(result))

QueryHasDuplications ==
    Observe("has_duplications", None, has_duplications(result),
            ReadOnlyAfter(result))

QueryCritical ==
    \E t \in FloatThresholds :
        Observe("get_critical_duplications", t,
                get_critical_duplications(result, t),
                get_critical_duplications_after(result, t))

QueryToDict == Observe("to_dict", None, to_dict(result), ReadOnlyAfter(result))

Next ==
    \/ ChangeFiles
    \/ CallDetectInFiles
    \/ CallDetectInDirectories
    \/ CallAnalyzeProject
    \/ CallDetectDuplicatesInFiles
    \/ CallDetectDuplicatesInDirectories
    \/ CallAnalyzeProjectDuplicates

\* Detection runs of one detector over a file set that may change between runs.
Spec == Init /\ [][Next]_vars

(***************************************************************************)
(* DetectionResult.to_json and the way back.  json.dumps writes a document *)
(* as text and json.loads reads text back: the text is modelled as its     *)
(* sequence of tokens (indentation carries no value).  A document is a     *)
(* tagged value: <<"obj", items>>, <<"arr", elements>>, <<"str", s>>,      *)
(* <<"int", n>>, <<"float", x>>, <<"bool", b>> or <<"null", None>>.  An    *)
(* int is written without a fraction and a float with one, so each is read *)
(* back as what it was.                                                    *)
(***************************************************************************)
JInt(n) == IF n = None THEN <<"null", None>> ELSE <<"int", n>>
JFloat(x) == <<"float", x>>
JStr(str) == <<"str", str>>
JBool(b) == <<"bool", b>>
JArr(elements) == <<"arr", elements>>
JObj(items) == <<"obj", items>>

\* A value of a raw_data inner mapping as a document.
JsonOfRawValue(v) ==
    IF v.kind = "dict"
    THEN JObj(<<Item("Similarity", JFloat(v.n)), Item(LoCKey, JInt(v.loc))>>)
    ELSE IF v.kind = "int" THEN JInt(v.n) ELSE JFloat(v.n)

JsonOfMapping(similarities) ==
    JObj([i \in 1..Len(similarities) |->
             Item(similarities[i].k, JsonOfRawValue(similarities[i].v))])

JsonOfRawData(raw_data) ==
    JObj([i \in 1..Len(raw_data) |->
             Item(raw_data[i].k, JsonOfMapping(raw_data[i].v))])

JsonOfSimilarity(d) ==
    JObj(<<Item("source_file", JStr(d.source_file)),
           Item("target_file", JStr(d.target_file)),
           Item("similarity_percentage", JFloat(d.similarity_percentage)),
           Item("source_loc", JInt(d.source_loc)),
           Item("target_loc", JInt(d.target_loc))>>)

JsonOfReport(d) ==
    JObj(<<Item("file_path", JStr(d.file_path)),
           Item("loc_count", JInt(d.loc_count)),
           Item("similarities",
                JArr([i \in 1..Len(d.similarities) |->
                         JsonOfSimilarity(d.similarities[i])]))>>)

\* The document of DetectionResult.to_dict().
JsonOfDict(d) ==
    JObj(<<Item("return_code", JInt(d.return_code)),
           Item("success", JBool(d.success)),
           Item("has_duplications", JBool(d.has_duplications)),
           Item("reports",
                JArr([i \in 1..Len(d.reports) |-> JsonOfReport(d.reports[i])])),
           Item("raw_data", JsonOfRawData(d.raw_data))>>)

Punct(c) == <<"punct", c>>

\* json.dumps: the tokens of a document.
RECURSIVE dumps(_)
RECURSIVE DumpItems(_, _, _)
RECURSIVE DumpElements(_, _, _)
dumps(doc) ==
    CASE doc[1] = "obj" -> <<Punct("{")>> \o DumpItems(doc[2], 1, <<>>) \o <<Punct("}")>>
      [] doc[1] = "arr" -> <<Punct("[")>> \o DumpElements(doc[2], 1, <<>>) \o <<Punct("]")>>
      [] OTHER -> <<doc>>

DumpItems(items, i, out) ==
    IF i > Len(items) THEN out
    ELSE DumpItems(items, i + 1,
                   out \o (IF i > 1 THEN <<Punct(",")>> ELSE <<>>)
                       \o <<JStr(items[i].k), Punct(":")>> \o dumps(items[i].v))

DumpElements(elements, i, out) ==
    IF i > Len(elements) THEN out
    ELSE DumpElements(elements, i + 1,
                      out \o (IF i > 1 THEN <<Punct(",")>> ELSE <<>>)
                          \o dumps(elements[i]))

\* json.loads: the document of a sequence of tokens, read from position i;
\* the result is the document and the position after it.
RECURSIVE ParseValue(_, _)
RECURSIVE ParseItems(_, _, _)
RECURSIVE ParseElements(_, _, _)
ParseValue(tokens, i) ==
    CASE tokens[i] = Punct("{") -> ParseItems(tokens, i + 1, <<>>)
      [] tokens[i] = Punct("[") -> ParseElements(tokens, i + 1, <<>>)
      [] OTHER -> [doc |-> tokens[i], next |-> i + 1]

ParseItems(tokens, i, items) ==
    IF tokens[i] = Punct("}") THEN [doc |-> JObj(items), next |-> i + 1]
    ELSE IF tokens[i] = Punct(",") THEN ParseItems(tokens, i + 1, items)
    ELSE LET value == ParseValue(tokens, i + 2)
         IN ParseItems(tokens, value.next,
                       Append(items, Item(tokens[i][2], value.doc)))

ParseElements(tokens, i, elements) ==
    IF tokens[i] = Punct("]") THEN [doc |-> JArr(elements), next |-> i + 1]
    ELSE IF tokens[i] = Punct(",") THEN ParseElements(tokens, i + 1, elements)
    ELSE LET value == ParseValue(tokens, i)
         IN ParseElements(tokens, value.next, Append(elements, value.doc))

loads(tokens) == ParseValue(tokens, 1).doc

to_json(self) == dumps(JsonOfDict(to_dict(self)))

\* The Python value of a parsed inner-mapping value.
RawValueOfJson(doc) ==
    IF doc[1] = "obj"
    THEN DictVal(Lookup(doc[2], "Similarity")[2], Lookup(doc[2], LoCKey)[2])
    ELSE IF doc[1] = "int" THEN IntVal(doc[2]) ELSE FloatVal(doc[2])

\* The raw_data of a parsed to_json() document.
RawDataOfJson(doc) ==
    LET raw == Lookup(doc[2], "raw_data")[2]
    IN [i \in 1..Len(raw) |->
           Item(raw[i].k,
                [j \in 1..Len(raw[i].v[2]) |->
                    Item(raw[i].v[2][j].k, RawValueOfJson(raw[i].v[2][j].v))])]

QueryToJson == Observe("to_json", None, to_json(result), ReadOnlyAfter(result))

\* The first detection run of a session.
FirstRun ==
    /\ result = NoResult
    /\ \/ CallDetectInFiles
       \/ CallDetectInDirectories

NextView ==
    \/ FirstRun
    \/ QueryIsSuccess
    \/ QueryHasDuplications
    \/ QueryCritical
    \/ QueryToDict
    \/ QueryToJson

\* One detection run, then the derived views of its result.
SpecView == Init /\ [][NextView]_vars

(***************************************************************************)
(* A caller that assembles a raw_data mapping of the documented shape,     *)
(* hands it to _process_result, and feeds the result's raw_data back in.   *)
(***************************************************************************)
RawPcts == {0, MaxPct}
ReturnCodes == {SUCCESS, THRESHOLD_EXCEEDED}

RECURSIVE RawSize(_)
RawSize(raw_data) ==
    IF raw_data = <<>> THEN 0
    ELSE 1 + Len(Head(raw_data).v) + RawSize(Tail(raw_data))

InitRaw ==
    /\ detector \in {DuplicateCodeDetector(Percent(DefaultFailThreshold),
                                           Percent(DefaultIgnoreThreshold),
                                           <<>>, FALSE, s) : s \in BOOLEAN}
    /\ corpus = [pr \in Pairs |-> 0]
    /\ lastCall = NoCall
    /\ runCount = 0
    /\ prev = NoResult
    /\ result = NoResult
    /\ obs = NoObs
    /\ rawIn = <<>>
    /\ again = NoAgain

\* raw_data[path] = {}
AddFile ==
    /\ result = NoResult
    /\ RawSize(rawIn) < MaxRawSize
    /\ \E path \in Paths \ KeySet(rawIn) :
           rawIn' = Append(rawIn, Item(path, <<>>))
    /\ UNCHANGED <<detector, corpus, lastCall, runCount, prev, result, obs, again>>

\* raw_data[path][key] = value, for the file added last.
AddEntry ==
    /\ result = NoResult
    /\ rawIn # <<>>
    /\ RawSize(rawIn) < MaxRawSize
    /\ LET last == rawIn[Len(rawIn)]
       IN \E key \in ({LoCKey} \cup (Paths \ {last.k})) \ KeySet(last.v) :
              \E value \in IF key = LoCKey THEN {IntVal(MaxLoc)}
                           ELSE {FloatVal(x) : x \in RawPcts}
                                \cup {DictVal(x, MaxLoc) : x \in RawPcts} :
                  rawIn' = [rawIn EXCEPT ![Len(rawIn)].v = Append(@, Item(key, value))]
    /\ UNCHANGED <<detector, corpus, lastCall, runCount, prev, result, obs, again>>

\* result = detector._process_result(return_code, raw_data)
ProcessRaw ==
    /\ result = NoResult
    /\ \E return_code \in ReturnCodes :
           result' = _process_result(detector, return_code, rawIn)
    /\ UNCHANGED <<detector, corpus, lastCall, runCount, prev, obs, rawIn, again>>

\* detector._process_result(result.return_code, result.raw_data), once.
ReprocessRaw ==
    /\ result # NoResult
    /\ again = NoAgain
    /\ again' = [via |-> "raw_data",
                 ret |-> _process_result(detector, result.return_code,
                                         result.raw_data)]
    /\ UNCHANGED <<detector, corpus, lastCall, runCount, prev, result, obs, rawIn>>

\* detector._process_result(code, json.loads(result.to_json())["raw_data"]),
\* once.
ReprocessJson ==
    /\ result # NoResult
    /\ again = NoAgain
    /\ again' = [via |-> "to_json",
                 ret |-> _process_result(detector, result.return_code,
                                         RawDataOfJson(loads(to_json(result))))]
    /\ UNCHANGED <<detector, corpus, lastCall, runCount, prev, result, obs, rawIn>>

NextRaw ==
    \/ AddFile
    \/ AddEntry
    \/ ProcessRaw
    \/ ReprocessRaw
    \/ ReprocessJson

\* _process_result on caller-assembled raw_data.
SpecRaw == InitRaw /\ [][NextRaw]_vars

(***************************************************************************)
(* Claims about detection runs (specification Spec).                       *)
(***************************************************************************)
DetectorCalls == {"detect_in_files", "detect_in_directories"}

ConvenienceCalls ==
    {"detect_duplicates_in_files", "detect_duplicates_in_directories",
     "analyze_project_duplicates"}

\* Some compared pair of the last run reaches the detector's fail threshold.
ReachedFailThreshold ==
    \E pr \in ComparedPairs(lastCall.files) : corpus[pr] >= detector.fail_threshold

C2_NothingBelowCallerThreshold ==
    lastCall.op \in ConvenienceCalls =>
        \A i \in 1..Len(result.reports) :
            \A j \in 1..Len(result.reports[i].similarities) :
                result.reports[i].similarities[j].similarity_percentage
                    >= lastCall.threshold

\* C6, the results: the second of two identical calls in succession on the
\* same detector over an unchanged file set returns a result equal to the
\* first (return_code, raw_data, reports and their order).
C6_SameResult ==
    (runCount = 2 /\ lastCall.op \in DetectorCalls) => result = prev

RECURSIVE AllSimilarities(_)
AllSimilarities(reports) ==
    IF reports = <<>> THEN <<>>
    ELSE Head(reports).similarities \o AllSimilarities(Tail(reports))

\* a is b with some of its elements left out.
RECURSIVE IsSubseq(_, _)
IsSubseq(a, b) ==
    IF a = <<>> THEN TRUE
    ELSE IF b = <<>> THEN FALSE
    ELSE IF Head(a) = Head(b) THEN IsSubseq(Tail(a), Tail(b))
    ELSE IsSubseq(a, Tail(b))

C7_ThresholdMonotone ==
    obs.op = "get_critical_duplications" =>
        \A t \in FloatThresholds :
            /\ t >= obs.threshold =>
                   IsSubseq(get_critical_duplications(result, t), obs.out)
            /\ t <= obs.threshold =>
                   IsSubseq(obs.out, get_critical_duplications(result, t))

\* A query with a non-empty answer that a higher threshold shortens to a
\* shorter non-empty one.
C7_Witness ==
    /\ obs.op = "get_critical_duplications"
    /\ \E t \in FloatThresholds :
           /\ t > obs.threshold
           /\ get_critical_duplications(result, t) # <<>>
           /\ Len(get_critical_duplications(result, t)) < Len(obs.out)

\* C8: has_duplications() is true exactly when the result holds a report,
\* whatever the return_code; to_dict()["has_duplications"] has that value
\* and to_dict()["success"] is true exactly when to_dict()["return_code"]
\* is 0.
C8_HasDuplicationsIffReports ==
    /\ obs.op = "has_duplications" => (obs.out <=> result.reports # <<>>)
    /\ obs.op = "to_dict" =>
           /\ obs.out.has_duplications <=> result.reports # <<>>
           /\ obs.out.success <=> obs.out.return_code = 0

\* to_dict() of a failed run that holds no report.
C8_Witness ==
    /\ obs.op = "to_dict"
    /\ obs.out.return_code > 0
    /\ ~obs.out.has_duplications
    /\ ~obs.out.success

(***************************************************************************)
(* Claims about _process_result (specification SpecRaw).                   *)
(***************************************************************************)
ReportPaths(reports) == [i \in 1..Len(reports) |-> reports[i].file_path]
PathSet(reports) == {reports[i].file_path : i \in 1..Len(reports)}
Targets(report) ==
    [j \in 1..Len(report.similarities) |-> report.similarities[j].target_file]
TargetSet(report) ==
    {report.similarities[j].target_file : j \in 1..Len(report.similarities)}
\* The keys of a raw mapping that name a comparison target.
TargetKeys(similarities) == KeySet(similarities) \ {LoCKey}

\* C3: every report returned by _process_result has a non-empty
\* similarities list; a file whose raw mapping is empty, or, with show_loc
\* enabled, holds only the "#LoC" key, has no report.
C3_NoEmptyReport ==
    result # NoResult =>
        /\ \A i \in 1..Len(result.reports) :
               result.reports[i].similarities # <<>>
        /\ \A f \in 1..Len(rawIn) :
               (\/ rawIn[f].v = <<>>
                \/ detector.show_loc /\ KeySet(rawIn[f].v) = {LoCKey})
               => rawIn[f].k \notin PathSet(result.reports)

\* With show_loc enabled, a file holding only "#LoC" was left out and
\* another file was reported.
C3_Witness ==
    /\ result # NoResult
    /\ detector.show_loc
    /\ \E f \in 1..Len(rawIn) : KeySet(rawIn[f].v) = {LoCKey}
    /\ result.reports # <<>>

\* C5: feeding the raw_data of a result, as is or through to_json and back,
\* into _process_result on a detector with the same show_loc yields the
\* same reports in the same order, with the same file_path, loc_count and
\* FileSimilarity entries.
C5_RawDataRoundTrip ==
    again # NoAgain => again.ret.reports = result.reports

\* A round trip through to_json of a result whose report has a line count
\* and both a plain and a nested entry.
C5_Witness ==
    /\ again.via = "to_json"
    /\ \E i \in 1..Len(result.reports) :
           /\ result.reports[i].loc_count # None
           /\ \E j, k \in 1..Len(result.reports[i].similarities) :
                  /\ result.reports[i].similarities[j].target_loc # None
                  /\ result.reports[i].similarities[k].target_loc = None

\* C9: whatever show_loc is, "#LoC" is never decoded as a comparison: no
\* FileSimilarity has target_file "#LoC", and a file's report has as many
\* entries as its raw mapping has target-path keys.
C9_LocKeyNeverATarget ==
    result # NoResult =>
        \A i \in 1..Len(result.reports) :
            /\ LoCKey \notin TargetSet(result.reports[i])
            /\ Len(result.reports[i].similarities)
                   = Cardinality(TargetKeys(Lookup(rawIn, result.reports[i].file_path)))

\* C10: reports come in the order of the keys of raw_data, the files
\* without entries left out, and the entries of a report come in the order
\* of the keys of the file's raw mapping, whatever the percentages are.
C10_InputOrderKept ==
    result # NoResult =>
        /\ ReportPaths(result.reports)
               = SelectSeq(Keys(rawIn), LAMBDA k : k \in PathSet(result.reports))
        /\ \A f \in 1..Len(rawIn) :
               /\ TargetKeys(rawIn[f].v) # {} => rawIn[f].k \in PathSet(result.reports)
               /\ rawIn[f].v = <<>> => rawIn[f].k \notin PathSet(result.reports)
        /\ \A i \in 1..Len(result.reports) :
               LET report == result.reports[i]
                   mapping == Lookup(rawIn, report.file_path)
               IN /\ Targets(report)
                         = SelectSeq(Keys(mapping), LAMBDA k : k \in TargetSet(report))
                  /\ TargetKeys(mapping) \subseteq TargetSet(report)

\* A file without entries was skipped before a report whose two entries
\* are in key order with the lower percentage first.
C10_Witness ==
    /\ result # NoResult
    /\ Len(rawIn) = 2
    /\ rawIn[1].v = <<>>
    /\ Len(result.reports) = 1
    /\ LoCKey \notin TargetSet(result.reports[1])
    /\ LET e == result.reports[1].similarities
       IN /\ Len(e) = 2
          /\ e[1].similarity_percentage < e[2].similarity_percentage
          /\ e[1].target_file = rawIn[2].v[1].k

(***************************************************************************)
(* Claim about the result after its construction (specification SpecView). *)
(***************************************************************************)
\* The raw_data that run() handed to _process_result in the last call.
RawDataReceived ==
    run(detector.fail_threshold, lastCall.files, detector.ignore_threshold,
        detector.show_loc, corpus).raw_data

\* C11, the stored mapping: raw_data of the result is exactly the mapping
\* _process_result received, the "#LoC" keys still in it, also after any
\* number of queries.
C11_RawDataAsReceived ==
    result # NoResult =>
        /\ result.raw_data = RawDataReceived
        /\ detector.show_loc =>
               \A f \in 1..Len(result.raw_data) :
                   HasKey(result.raw_data[f].v, LoCKey)

\* C11: the result is never changed after construction: raw_data is the
\* mapping _process_result received, with its "#LoC" keys, and no call of
\* is_success, has_duplications, get_critical_duplications, to_dict or
\* to_json changes return_code, reports (or a report's similarities) or
\* raw_data.
C11_ResultImmutable ==
    /\ []C11_RawDataAsReceived
    /\ [][result # NoResult => result' = result]_vars

\* After get_critical_duplications with a threshold that leaves an entry
\* out, the result still holds every entry and its "#LoC" keys.
C11_Witness ==
    /\ obs.op = "get_critical_duplications"
    /\ obs.out # <<>>
    /\ Len(obs.out) < Len(AllSimilarities(result.reports))
    /\ detector.show_loc
    /\ \E f \in 1..Len(result.raw_data) : HasKey(result.raw_data[f].v, LoCKey)

====
